---- MODULE Spec2Model ----
(***************************************************************************)
(* Model of the Jikan API proxy server (src/index.js): the TTL cache       *)
(* (fetchWithCache), the rate-limited dispatcher (enqueueRequest /         *)
(* processQueue), the stats wrapper (performanceMiddleware) and the        *)
(* request entry point (serve.fetch).                                      *)
(*                                                                         *)
(* One action is one turn of the JavaScript event loop: the synchronous    *)
(* code of a callback together with the microtasks it leaves behind.       *)
(* Time is the value Date.now() returns, in milliseconds.                  *)
(***************************************************************************)
EXTENDS Integers, Sequences, FiniteSets, TLC

VARIABLES
    now,              \* Date.now()
    requestQueue,     \* the dispatcher's pending tasks (request ids), FIFO
    processingQueue,  \* the in-progress flag of processQueue
    batch,            \* the requests of the batch whose Promise.all is awaited
    timer,            \* the due time of the pending cooldown setTimeout, if any
    cache,            \* the cache Map: cache key -> entry or NoEntry
    cacheKeys,        \* the keys of the cache Map, in the Map's iteration order
    disk,             \* the cache directory: the index file and the entry files
    stats,            \* the stats object
    reqs,             \* the inbound requests, in arrival order
    batches,          \* number of batches popped so far
    maint,            \* the maintenance work done so far and its last outcomes
    ticks             \* clock steps taken outside a cooldown

vars == <<now, requestQueue, processingQueue, batch, timer, cache, cacheKeys,
          disk, stats, reqs, batches, maint, ticks>>

----------------------------------------------------------------------------
(* Bounds of the model *)

MaxRequests == 3    \* inbound requests of a run of Spec
MaxBurst == 6       \* inbound requests of a run of SpecBurst
MaxLive == 5        \* inbound requests of a run of FairDrain
MaxTicks == 1       \* clock steps a run may take outside a cooldown
MaxJumps == 1       \* whole cache lifetimes a run may let pass
MaxHandlers == 3    \* inbound requests of a run of SpecHandlers
MaxStored == 2      \* inbound requests of a run of SpecDisk
MaxWaits == 2       \* half hours a run of SpecDisk may let pass
MaxMaint == 2       \* saves, cleanups and restarts of a run
MaxApi == 5         \* inbound requests of a run of SpecApi
MaxClash == 3       \* inbound requests of a run of SpecKeys
MaxStats == 4       \* inbound requests of a run of SpecStats

(* Program constants *)

MAX_REQUESTS_PER_SECOND == 4
COOLDOWN_MS == 1000
CACHE_DURATION == 3600000
SAVE_EVERY == 100
RING_CAPACITY == 1000
HTTP_OK == 200
HTTP_ERROR == 500
CLEANUP_MS == 3600000
SAVE_MS == 1800000

\* the clock moves in steps of half a cooldown, or by a whole cache lifetime
TickMs == COOLDOWN_MS \div 2

Endpoints == {"anime", "random", "stats"}

\* A string is the sequence of its pieces, and concatenation joins the
\* sequences: where a piece ends is not part of the string.
\* the percent-encoding URLSearchParams.toString() applies to a value
RECURSIVE Encode(_)
Encode(value) ==
    IF value = <<>> THEN <<>>
    ELSE <<IF value[1] = "=" THEN "%3D"
           ELSE IF value[1] = "&" THEN "%26"
           ELSE value[1]>> \o Encode(Tail(value))

\* URLSearchParams.toString(): name=value joined by & in insertion order
RECURSIVE QueryString(_)
QueryString(params) ==
    IF params = <<>> THEN <<>>
    ELSE <<params[1][1], "=">> \o Encode(params[1][2])
         \o (IF Len(params) > 1 THEN <<"&">> ELSE <<>>)
         \o QueryString(Tail(params))

\* params.get(name): the first value of that name, or nothing
RECURSIVE GetParam(_, _)
GetParam(params, name) ==
    IF params = <<>> THEN <<>>
    ELSE IF params[1][1] = name THEN params[1][2]
    ELSE GetParam(Tail(params), name)

\* the cache key handlers.anime resolves a request's parameters to
AnimeCacheKey(params) ==
    IF GetParam(params, "id") # <<>>
    THEN <<"anime_">> \o GetParam(params, "id")
    ELSE <<"anime_", "search_">> \o QueryString(params)

\* the upstream URL (after BASE_URL) handlers.anime fetches for them
AnimeUrl(params) ==
    IF GetParam(params, "id") # <<>>
    THEN <<"/anime", "/">> \o GetParam(params, "id")
    ELSE <<"/anime", "?">> \o QueryString(params)

\* the parameter lists of the requests: by id, one search whose two
\* parameters arrive in either order, and a search together with an id that
\* spells a search
IdParams == {<<<<"id", <<"5">>>>>>, <<<<"id", <<"7">>>>>>}
SearchParams == {<<<<"q", <<"naruto">>>>, <<"page", <<"1">>>>>>,
                 <<<<"page", <<"1">>>>, <<"q", <<"naruto">>>>>>}
ClashParams == {<<<<"q", <<"1">>>>>>,
                <<<<"id", <<"search_", "q", "=", "1">>>>>>,
                <<<<"id", <<"1">>>>>>}

Keys == {AnimeCacheKey(<<<<"id", <<"5">>>>>>)}
IdKeys == {AnimeCacheKey(p) : p \in IdParams}
SearchKeys == {AnimeCacheKey(p) : p \in SearchParams}
ClashKeys == {AnimeCacheKey(p) : p \in ClashParams}
AllKeys == IdKeys \cup SearchKeys \cup ClashKeys

\* a request that has no cache key
NoKey == <<>>

NoEntry == [timestamp |-> -1, duration |-> -1, data |-> <<>>]

\* the stats object of a process started at time 0
NoStats ==
    [requests |-> 0, cacheHits |-> 0, cacheMisses |-> 0, errors |-> 0,
     startTime |-> 0, responseTime |-> <<>>,
     endpoints |-> [e \in Endpoints |->
                       [calls |-> 0, errors |-> 0, totalResponseTime |-> 0]]]

\* no maintenance yet: restarts, saves and cleanups so far, the outcome of
\* the last save and the number of its writes that succeeded, the last
\* cleanup's removals
NoMaint ==
    [boots |-> 0, saves |-> 0, sweeps |-> 0, saved |-> "none", written |-> 0,
     removed |-> 0]

\* the maintenance events so far
MaintCount(m) == m.boots + m.saves + m.sweeps
NoData == <<>>
ErrorData == <<"error">>

\* the body the upstream sends in answer to the call made for request r
Body(r) == <<"body", r>>

Min(a, b) == IF a < b THEN a ELSE b

\* F applied to the value of x, with x evaluated once
Bind(F(_), x) == CHOOSE y \in {F(v) : v \in {x}} : TRUE

\* the whole mutable program state as one record, so that the synchronous
\* code of a callback can be composed as a function from state to state
State ==
    [requestQueue |-> requestQueue, processingQueue |-> processingQueue,
     batch |-> batch, timer |-> timer, cache |-> cache,
     cacheKeys |-> cacheKeys, disk |-> disk, stats |-> stats, reqs |-> reqs,
     batches |-> batches, maint |-> maint]

Install(D) ==
    /\ requestQueue' = D.requestQueue
    /\ processingQueue' = D.processingQueue
    /\ batch' = D.batch
    /\ timer' = D.timer
    /\ cache' = D.cache
    /\ cacheKeys' = D.cacheKeys
    /\ disk' = D.disk
    /\ stats' = D.stats
    /\ reqs' = D.reqs
    /\ batches' = D.batches
    /\ maint' = D.maint

\* cache.delete(key)
CacheDelete(D, k) ==
    [D EXCEPT !.cache[k] = NoEntry,
              !.cacheKeys = SelectSeq(@, LAMBDA x : x # k)]

\* cache.set(key, entry): a new key goes to the end of the iteration order
CacheSet(D, k, entry) ==
    [D EXCEPT !.cache[k] = entry,
              !.cacheKeys = IF \E i \in 1..Len(@) : @[i] = k
                            THEN @ ELSE Append(@, k)]

----------------------------------------------------------------------------
(* performanceMiddleware *)

\* faulty variant: the call is counted for the endpoint only
MiddlewareEnterEndpointOnly(D, r) ==
    LET F(S) == [S EXCEPT !.stats.endpoints[S.reqs[r].endpoint].calls = @ + 1]
    IN  Bind(F, D)

\* the code before the handler is awaited: endpoint and global call counters
MiddlewareEnter(D, r) ==
    LET F(S) == [S EXCEPT !.stats.requests = @ + 1,
                          !.stats.endpoints[S.reqs[r].endpoint].calls = @ + 1]
    IN  Bind(F, D)

\* faulty variant: a full ring drops the sample that was just pushed
RingPushDropNewest(ring, sample) ==
    IF Len(ring) + 1 > RING_CAPACITY THEN ring ELSE Append(ring, sample)

\* stats.responseTime.push(sample), then shift() when over capacity
RingPush(ring, sample) ==
    IF Len(ring) + 1 > RING_CAPACITY
    THEN Tail(Append(ring, sample))
    ELSE Append(ring, sample)

\* the code after the handler returned at time t: the latency sample
MiddlewareReturn(D, r, t) ==
    LET F(S) ==
            [S EXCEPT !.stats.endpoints[S.reqs[r].endpoint].totalResponseTime =
                          @ + (t - S.reqs[r].startedAt),
                      !.stats.responseTime =
                          RingPush(@, t - S.reqs[r].startedAt)]
    IN  Bind(F, D)

\* faulty variant: the catch block records a latency sample as well
MiddlewareCatchSampled(D, r) ==
    LET F(S) == [S EXCEPT !.stats.errors = @ + 1,
                          !.stats.endpoints[S.reqs[r].endpoint].errors = @ + 1,
                          !.stats.responseTime = RingPush(@, 0)]
    IN  Bind(F, D)

\* the catch block: endpoint and global error counters, then rethrow
MiddlewareCatch(D, r) ==
    LET F(S) == [S EXCEPT !.stats.errors = @ + 1,
                          !.stats.endpoints[S.reqs[r].endpoint].errors = @ + 1]
    IN  Bind(F, D)

----------------------------------------------------------------------------
(* The promise returned by enqueueRequest, and the response serve.fetch
   builds when it settles *)

\* resolve(result) of the task's wrapper in processQueue: a 200 response
Resolve(D, r, value, t) ==
    [D EXCEPT !.reqs[r].status = "resolved",
              !.reqs[r].data = value,
              !.reqs[r].http = HTTP_OK,
              !.reqs[r].settledAt = t,
              !.reqs[r].settles = @ + 1]

\* faulty variant: the wrapper's catch block swallows the failure
RejectSwallowed(D, r, t) ==
    [D EXCEPT !.reqs[r].status = "resolved",
              !.reqs[r].data = NoData,
              !.reqs[r].http = HTTP_OK,
              !.reqs[r].settledAt = t,
              !.reqs[r].settles = @ + 1]

\* reject(error) of the task's wrapper in processQueue: the 500 envelope
Reject(D, r, t) ==
    [D EXCEPT !.reqs[r].status = "rejected",
              !.reqs[r].data = ErrorData,
              !.reqs[r].http = HTTP_ERROR,
              !.reqs[r].settledAt = t,
              !.reqs[r].settles = @ + 1]

----------------------------------------------------------------------------
(* The cache directory: saveCacheToDisk and the load at startup *)

\* a file that does not exist, and a file whose content JSON.parse rejects
NoFile == <<>>
CorruptFile == <<"corrupt">>

\* JSON.stringify(value) of a cache entry, and JSON.parse of such a file
StringifyEntry(entry) ==
    <<"json", <<"timestamp", entry.timestamp>>, <<"duration", entry.duration>>,
      <<"data", entry.data>>>>
ParseEntry(file) ==
    [timestamp |-> file[2][2], duration |-> file[3][2], data |-> file[4][2]]

\* JSON.stringify({ keys }) of the index, and JSON.parse(...).keys
StringifyIndex(keys) == <<"json", <<"keys", keys>>>>
ParseIndex(file) == file[2][2]

\* JSON.parse does not throw on this file
IsJson(file) == file # NoFile /\ file # CorruptFile

\* the loop over cache.entries(): the files of the first n entries written
RECURSIVE WriteEntries(_, _)
WriteEntries(D, n) ==
    LET F(S) == [S EXCEPT !.disk.files[S.cacheKeys[n]] =
                              StringifyEntry(S.cache[S.cacheKeys[n]])]
    IN  IF n = 0 THEN D ELSE Bind(F, WriteEntries(D, n - 1))

\* saveCacheToDisk when the first `budget` calls of writeFileSync succeed and
\* the next one throws: the index is written first, then the entries in the
\* Map's order; the one try/catch around it all logs the error
WriteSnapshot(D, budget) ==
    LET Entries(S) ==
            [WriteEntries(S, Min(budget - 1, Len(S.cacheKeys))) EXCEPT
                !.maint.saves = @ + 1,
                !.maint.saved = IF budget > Len(S.cacheKeys)
                                THEN "saved" ELSE "error",
                !.maint.written = Min(budget, Len(S.cacheKeys) + 1)]
        F(S) == IF budget = 0
                THEN [S EXCEPT !.maint.saves = @ + 1,
                               !.maint.saved = "error",
                               !.maint.written = 0]
                ELSE Bind(Entries,
                          [S EXCEPT !.disk.index = StringifyIndex(S.cacheKeys)])
    IN  Bind(F, D)

\* faulty variant: the index lists the keys but no entry file is written
SaveCacheToDiskIndexOnly(D) ==
    LET F(S) == WriteSnapshot(S, 1)
    IN  Bind(F, D)

\* saveCacheToDisk when every write succeeds
SaveCacheToDisk(D) ==
    LET F(S) == WriteSnapshot(S, Len(S.cacheKeys) + 1)
    IN  Bind(F, D)

\* the validity test of the load at startup
LoadFresh(item, t) == t - item.timestamp < item.duration

\* faulty variant: an item read from disk is stamped with the time of the load
LoadEntryRestamped(D, k, t) ==
    LET F(S) ==
            IF ~IsJson(S.disk.files[k]) THEN S
            ELSE IF LoadFresh(ParseEntry(S.disk.files[k]), t)
                 THEN CacheSet(S, k, [ParseEntry(S.disk.files[k]) EXCEPT
                                         !.timestamp = t])
                 ELSE S
    IN  Bind(F, D)

\* the body of the inner try of the load, for one key of the index: a file
\* that is missing is passed over, one that does not parse throws into the
\* inner catch, an item that is still valid is put in the Map
LoadEntry(D, k, t) ==
    LET F(S) ==
            IF ~IsJson(S.disk.files[k]) THEN S
            ELSE IF LoadFresh(ParseEntry(S.disk.files[k]), t)
                 THEN CacheSet(S, k, ParseEntry(S.disk.files[k]))
                 ELSE S
    IN  Bind(F, D)

\* faulty variant: without the inner catch, a file that does not parse ends
\* the loop
RECURSIVE LoadEntriesFatal(_, _, _)
LoadEntriesFatal(D, keys, t) ==
    LET F(S) == LoadEntriesFatal(S, Tail(keys), t)
    IN  IF keys = <<>> THEN D
        ELSE IF D.disk.files[Head(keys)] = CorruptFile THEN D
        ELSE Bind(F, LoadEntry(D, Head(keys), t))

\* the loop over cacheIndex.keys
RECURSIVE LoadEntries(_, _, _)
LoadEntries(D, keys, t) ==
    LET F(S) == LoadEntries(S, Tail(keys), t)
    IN  IF keys = <<>> THEN D
        ELSE Bind(F, LoadEntry(D, Head(keys), t))

\* the load at startup: no index file, or one that does not parse (the outer
\* catch), leaves the Map empty
LoadFromDisk(D, t) ==
    LET F(S) == IF ~IsJson(S.disk.index) THEN S
                ELSE LoadEntries(S, ParseIndex(S.disk.index), t)
    IN  Bind(F, D)

\* what may be damaged while the process is down: nothing, the index file,
\* or the file of one key
DamageChoices == {<<>>, <<"index">>} \cup {<<"file", k>> : k \in IdKeys}

\* the cache directory after the damage
Damaged(D, what) ==
    LET F(S) ==
            IF what = <<>> THEN S
            ELSE IF what[1] = "index"
                 THEN IF IsJson(S.disk.index)
                      THEN [S EXCEPT !.disk.index = CorruptFile] ELSE S
                 ELSE IF IsJson(S.disk.files[what[2]])
                      THEN [S EXCEPT !.disk.files[what[2]] = CorruptFile] ELSE S
    IN  Bind(F, D)

\* an inbound request as serve.fetch receives it
NewRequest(e, k) ==
    [endpoint |-> e, key |-> k, status |-> "queued", data |-> NoData,
     hit |-> FALSE, hung |-> FALSE, upstream |-> "none", fetches |-> 0,
     http |-> 0, missNo |-> 0, url |-> NoKey,
     startNow |-> -1, startedAt |-> -1, settledAt |-> -1,
     batch |-> 0, pops |-> 0, runs |-> 0, settles |-> 0]

\* the requests of a process that ended: their promises and connections are
\* gone with it
RECURSIVE Dropped(_, _)
Dropped(rs, n) ==
    IF n = 0 THEN rs
    ELSE Dropped([rs EXCEPT ![n] = [NewRequest(@.endpoint, @.key) EXCEPT
                                       !.status = "dropped"]], n - 1)

\* a new process: the module's initial values at time t, then the load
Startup(D, t) ==
    LET F(S) ==
            LoadFromDisk(
                [S EXCEPT !.requestQueue = <<>>,
                          !.processingQueue = FALSE,
                          !.batch = {},
                          !.timer = {},
                          !.cache = [k \in AllKeys |-> NoEntry],
                          !.cacheKeys = <<>>,
                          !.stats = [NoStats EXCEPT !.startTime = t],
                          !.reqs = Dropped(@, Len(@)),
                          !.maint.boots = @ + 1], t)
    IN  Bind(F, D)

----------------------------------------------------------------------------
(* The hourly cleanup *)

\* the test of the cleanup loop
CleanupExpired(entry, t) == t - entry.timestamp > entry.duration

\* the loop over cache.entries(), over the keys the Map holds
RECURSIVE CleanupEntries(_, _, _)
CleanupEntries(D, keys, t) ==
    LET F(S) == CleanupEntries(S, Tail(keys), t)
    IN  IF keys = <<>> THEN D
        ELSE IF CleanupExpired(D.cache[Head(keys)], t)
             THEN Bind(F, [CacheDelete(D, Head(keys)) EXCEPT
                              !.maint.removed = @ + 1])
             ELSE Bind(F, D)

\* the callback of the hourly setInterval, run at time t
Cleanup(D, t) ==
    LET F(S) == CleanupEntries([S EXCEPT !.maint.sweeps = @ + 1,
                                         !.maint.removed = 0],
                               S.cacheKeys, t)
    IN  Bind(F, D)

----------------------------------------------------------------------------
(* fetchWithCache *)

\* faulty variant: an entry is still served at the instant its lifetime ends
FreshInclusive(entry, t) == t - entry.timestamp <= entry.duration

\* the validity test of a cache entry at a lookup made at time t
Fresh(entry, t) == t - entry.timestamp < entry.duration

\* what a lookup of key k at time t returns from cache map C: the data of a
\* present and valid entry, or nothing
HitData(C, k, t) ==
    IF C[k] # NoEntry /\ Fresh(C[k], t) THEN C[k].data ELSE NoData

\* fetchWithCache from its first line to `await fetch(url)`: the lookup, the
\* lazy deletion of an expired entry, the hit and miss counters
FetchWithCacheLookup(D, r, t) ==
    LET F(S) ==
            IF S.cache[S.reqs[r].key] # NoEntry
               /\ Fresh(S.cache[S.reqs[r].key], t)
            THEN Resolve(MiddlewareReturn(
                             [S EXCEPT !.stats.cacheHits = @ + 1,
                                       !.reqs[r].startNow = t,
                                       !.reqs[r].hit = TRUE], r, t),
                         r, S.cache[S.reqs[r].key].data, t)
            ELSE [CacheDelete(S, S.reqs[r].key) EXCEPT
                           !.stats.cacheMisses = @ + 1,
                           !.reqs[r].missNo = S.stats.cacheMisses + 1,
                           !.reqs[r].startNow = t,
                           !.reqs[r].fetches = @ + 1,
                           !.reqs[r].status = "fetching"]
    IN  Bind(F, D)

\* the entry fetchWithCache writes for request r: stamped with the time read
\* at the start of the call
NewEntry(D, r, p) ==
    [timestamp |-> D.reqs[r].startNow, duration |-> CACHE_DURATION, data |-> p]

\* fetchWithCache after the upstream answered ok with payload p: the entry is
\* written, and the cache is saved on every SAVE_EVERY-th miss count
FetchWithCacheStore(D, r, p) ==
    LET Save(S) == IF S.stats.cacheMisses % SAVE_EVERY = 0
                   THEN SaveCacheToDisk(S)
                   ELSE S
        F(S) == Bind(Save, CacheSet(S, S.reqs[r].key, NewEntry(S, r, p)))
    IN  Bind(F, D)

----------------------------------------------------------------------------
(* handlers, wrapped by performanceMiddleware, run as a dispatcher task *)

\* what handlers.stats returns: the counters, the size of the Map and the
\* length of the queue
StatsSnapshot(D) ==
    <<"stats", D.stats.requests, D.stats.cacheHits, D.stats.cacheMisses,
      D.stats.errors, Len(D.cacheKeys), Len(D.requestQueue)>>

\* handlers.stats for request r: it awaits nothing and returns the snapshot
HandleStats(D, r, t) ==
    LET F(S) == Resolve(MiddlewareReturn(S, r, t), r, StatsSnapshot(S), t)
    IN  Bind(F, D)

\* faulty variant: handlers.random counts a cache miss before it fetches
StartTaskRandomCounted(D, r, t) ==
    LET Handler(S) == IF S.reqs[r].endpoint = "random"
                      THEN [S EXCEPT !.reqs[r].fetches = @ + 1,
                                     !.reqs[r].status = "fetching",
                                     !.stats.cacheMisses = @ + 1]
                      ELSE IF S.reqs[r].endpoint = "stats"
                      THEN HandleStats(S, r, t)
                      ELSE FetchWithCacheLookup(S, r, t)
        F(S) == Bind(Handler,
                     MiddlewareEnter([S EXCEPT !.reqs[r].startedAt = t,
                                               !.reqs[r].batch = S.batches,
                                               !.reqs[r].runs = @ + 1], r))
    IN  Bind(F, D)

\* the task of request r from its start to its first await (or to its end)
StartTask(D, r, t) ==
    LET Handler(S) == IF S.reqs[r].endpoint = "random"
                      THEN [S EXCEPT !.reqs[r].fetches = @ + 1,
                                     !.reqs[r].status = "fetching"]
                      ELSE IF S.reqs[r].endpoint = "stats"
                      THEN HandleStats(S, r, t)
                      ELSE FetchWithCacheLookup(S, r, t)
        F(S) == Bind(Handler,
                     MiddlewareEnter([S EXCEPT !.reqs[r].startedAt = t,
                                               !.reqs[r].batch = S.batches,
                                               !.reqs[r].runs = @ + 1], r))
    IN  Bind(F, D)

\* faulty variant: a failed upstream call is made once more
FinishTaskRetry(D, r, ok, p, t) ==
    LET F(S) == IF ~ok
                THEN [S EXCEPT !.reqs[r].fetches = @ + 1]
                ELSE Resolve(MiddlewareReturn(
                                 FetchWithCacheStore(S, r, p), r, t),
                             r, p, t)
    IN  Bind(F, D)

\* the task of request r after its upstream call came back at time t
FinishTask(D, r, ok, p, t) ==
    LET F(S) == IF ~ok
                THEN Reject(MiddlewareCatch(S, r), r, t)
                ELSE IF S.reqs[r].endpoint = "random"
                     THEN Resolve(MiddlewareReturn(S, r, t), r, p, t)
                     ELSE Resolve(MiddlewareReturn(
                                      FetchWithCacheStore(S, r, p), r, t),
                                  r, p, t)
    IN  Bind(F, D)

----------------------------------------------------------------------------
(* processQueue / enqueueRequest *)

\* faulty variant: a task whose upstream call hangs is given up as settled
SettledOrGivenUp(D, r) ==
    D.reqs[r].status \in {"resolved", "rejected"} \/ D.reqs[r].hung

\* the promise of the task's wrapper has settled
Settled(D, r) == D.reqs[r].status \in {"resolved", "rejected"}

\* faulty variant: the drain loop goes on as soon as the batch has settled
AwaitAllNoCooldown(D, t) ==
    LET F(S) == IF S.processingQueue /\ S.timer = {}
                   /\ \A r \in S.batch : Settled(S, r)
                THEN [S EXCEPT !.timer = {t}]
                ELSE S
    IN  Bind(F, D)

\* `await Promise.all(promises)` followed by arming the cooldown timer
AwaitAll(D, t) ==
    LET F(S) == IF S.processingQueue /\ S.timer = {}
                   /\ \A r \in S.batch : Settled(S, r)
                THEN [S EXCEPT !.timer = {t + COOLDOWN_MS}]
                ELSE S
    IN  Bind(F, D)

\* batch.map(...): the tasks of the batch are started one after the other
RECURSIVE RunBatch(_, _, _)
RunBatch(D, b, t) ==
    LET F(S) == RunBatch(S, Tail(b), t)
    IN  IF b = <<>> THEN D
        ELSE Bind(F, StartTask(D, Head(b), t))

\* faulty variant: the whole queue is taken as one batch
BatchSizeUnlimited(q) == Len(q)

\* requestQueue.splice(0, MAX_REQUESTS_PER_SECOND): the size of the batch
BatchSize(q) == Min(MAX_REQUESTS_PER_SECOND, Len(q))

\* faulty variant: slice instead of splice: the batch is copied, not removed
AfterSlice(q, n) == q

\* requestQueue.splice(0, MAX_REQUESTS_PER_SECOND): what stays in the queue
AfterSplice(q, n) == SubSeq(q, n + 1, Len(q))

\* the tasks the splice removed from the queue are counted as popped
RECURSIVE Popped(_, _)
Popped(D, b) ==
    LET F(S) == Popped(S, Tail(b))
    IN  IF b = <<>> THEN D
        ELSE Bind(F, [D EXCEPT !.reqs[Head(b)].pops = @ + 1])

\* faulty variant: the in-progress flag is not tested
NothingToDoNoFlag(D) == D.requestQueue = <<>>

\* the guard of processQueue: a drain is active, or there is nothing to do
NothingToDo(D) == D.processingQueue \/ D.requestQueue = <<>>

ProcessQueue(D, t) ==
    LET Drain(S, b) ==
            AwaitAll(RunBatch(Popped(
                [S EXCEPT !.processingQueue = TRUE,
                          !.requestQueue = AfterSplice(@, Len(b)),
                          !.batch = {b[i] : i \in 1..Len(b)},
                          !.batches = @ + 1], b), b, t), t)
        Splice(S) == LET G(b) == Drain(S, b)
                     IN  Bind(G, SubSeq(S.requestQueue, 1,
                                        BatchSize(S.requestQueue)))
        F(S) == IF NothingToDo(S) THEN S ELSE Splice(S)
    IN  Bind(F, D)

\* faulty variant: the queue is not checked again after the cooldown
AfterCooldownNoRecheck(D, t) ==
    [D EXCEPT !.processingQueue = FALSE, !.timer = {}, !.batch = {}]

\* the continuation of processQueue after the cooldown: clear the flag and
\* call processQueue again
AfterCooldown(D, t) ==
    ProcessQueue([D EXCEPT !.processingQueue = FALSE,
                           !.timer = {},
                           !.batch = {}], t)

\* faulty variant: unshift instead of push: the task goes to the head of the queue
PushFront(q, r) == <<r>> \o q

\* requestQueue.push(task)
Push(q, r) == Append(q, r)

\* enqueueRequest(fn), called by serve.fetch for every known endpoint
EnqueueRequest(D, e, k, t) ==
    ProcessQueue([D EXCEPT !.reqs = Append(@, NewRequest(e, k)),
                           !.requestQueue = Push(@, Len(D.reqs) + 1)], t)

----------------------------------------------------------------------------
(* Actions *)

Init ==
    /\ now = 0
    /\ requestQueue = <<>>
    /\ processingQueue = FALSE
    /\ batch = {}
    /\ timer = {}
    /\ cache = [k \in AllKeys |-> NoEntry]
    /\ cacheKeys = <<>>
    /\ disk = [index |-> NoFile, files |-> [k \in AllKeys |-> NoFile]]
    /\ stats = NoStats
    /\ maint = NoMaint
    /\ reqs = <<>>
    /\ batches = 0
    /\ ticks = 0

\* an inbound request GET /api/<endpoint> arrives at serve.fetch
Arrive(max, endpoints, keys) ==
    /\ Len(reqs) < max
    /\ \E e \in endpoints :
         \E k \in (IF e \in {"random", "stats"} THEN {NoKey} ELSE keys) :
            \E D \in {EnqueueRequest(State, e, k, now)} : Install(D)
    /\ UNCHANGED <<now, ticks>>

\* requests for cacheable resources
Request == Arrive(MaxRequests, {"anime"}, Keys)

\* a burst of requests for one cacheable resource
RequestBurst == Arrive(MaxBurst, {"anime"}, Keys)

\* a few requests, for the progress of the drain loop
RequestLive == Arrive(MaxLive, {"anime"}, Keys)

\* searches whose parameters arrive in either order, and random picks
RequestHandlers == Arrive(MaxHandlers, {"anime", "random"}, SearchKeys)

\* the upstream call of a running task comes back: ok with a body, or not ok
\* (non-2xx status or transport failure)
UpstreamResponds ==
    /\ \E r \in 1..Len(reqs) :
         /\ reqs[r].status = "fetching"
         /\ ~reqs[r].hung
         /\ \E ok \in BOOLEAN :
              \E D \in {AwaitAll(
                          FinishTask([State EXCEPT !.reqs[r].upstream =
                                         IF ok THEN "ok" ELSE "failed"],
                                     r, ok, Body(r), now),
                          now)} : Install(D)
    /\ UNCHANGED <<now, ticks>>

\* the upstream never answers the call of a running task (the code sets no
\* timeout on it)
UpstreamHangs ==
    /\ \E r \in 1..Len(reqs) :
         /\ reqs[r].status = "fetching"
         /\ ~reqs[r].hung
         /\ reqs' = [reqs EXCEPT ![r].hung = TRUE]
    /\ UNCHANGED <<now, requestQueue, processingQueue, batch, timer, cache,
                   cacheKeys, disk, stats, batches, maint, ticks>>

\* the cooldown setTimeout fires
CooldownElapsed ==
    /\ \E due \in timer : now >= due
    /\ \E D \in {AfterCooldown(State, now)} : Install(D)
    /\ UNCHANGED <<now, ticks>>

\* time passes: always while the cooldown timer is pending, and otherwise
\* within the run's bound
Tick ==
    /\ \/ ticks < MaxTicks
       \/ \E due \in timer : now < due
    /\ now' = now + TickMs
    /\ ticks' = IF \E due \in timer : now < due THEN ticks ELSE ticks + 1
    /\ UNCHANGED <<requestQueue, processingQueue, batch, timer, cache,
                   cacheKeys, disk, stats, reqs, batches, maint>>

\* a long time passes: a whole cache lifetime
Jump ==
    /\ now \div CACHE_DURATION < MaxJumps
    /\ now' = now + CACHE_DURATION
    /\ UNCHANGED <<requestQueue, processingQueue, batch, timer, cache,
                   cacheKeys, disk, stats, reqs, batches, maint, ticks>>

\* the server under requests for cacheable resources
Next ==
    \/ Request
    \/ UpstreamResponds
    \/ CooldownElapsed
    \/ Tick
    \/ Jump

Spec == Init /\ [][Next]_vars

\* the dispatcher under a burst of requests, with an upstream that may hang
NextBurst ==
    \/ RequestBurst
    \/ UpstreamResponds
    \/ UpstreamHangs
    \/ CooldownElapsed
    \/ Tick

SpecBurst == Init /\ [][NextBurst]_vars

\* the drain loop under fairness: the event loop runs a due timer and a
\* completed upstream call, and time does not stop; the upstream may hang
NextLive ==
    \/ RequestLive
    \/ UpstreamResponds
    \/ UpstreamHangs
    \/ CooldownElapsed
    \/ Tick

FairDrain ==
    /\ Init
    /\ [][NextLive]_vars
    /\ WF_vars(CooldownElapsed)
    /\ WF_vars(UpstreamResponds)
    /\ WF_vars(Tick)

\* requests for two resources by id
RequestStored == Arrive(MaxStored, {"anime"}, IdKeys)

\* the 30-minute setInterval fires: saveCacheToDisk, any of whose writes
\* may fail
SaveTimer ==
    /\ MaintCount(maint) < MaxMaint
    /\ now > stats.startTime
    /\ (now - stats.startTime) % SAVE_MS = 0
    /\ \E budget \in 0..(Len(cacheKeys) + 1) :
          \E D \in {WriteSnapshot(State, budget)} : Install(D)
    /\ UNCHANGED <<now, ticks>>

\* the hourly setInterval fires
CleanupTimer ==
    /\ MaintCount(maint) < MaxMaint
    /\ now > stats.startTime
    /\ (now - stats.startTime) % CLEANUP_MS = 0
    /\ \E D \in {Cleanup(State, now)} : Install(D)
    /\ UNCHANGED <<now, ticks>>

\* SIGINT or SIGTERM: saveCacheToDisk, then the process exits and is
\* started again
Shutdown ==
    /\ MaintCount(maint) < MaxMaint
    /\ \E D \in {Startup(SaveCacheToDisk(State), now)} : Install(D)
    /\ UNCHANGED <<now, ticks>>

\* the process is killed, a file of the cache directory may be damaged, and
\* the process is started again
Crash ==
    /\ MaintCount(maint) < MaxMaint
    /\ \E what \in DamageChoices :
          \E D \in {Startup(Damaged(State, what), now)} : Install(D)
    /\ UNCHANGED <<now, ticks>>

\* half an hour passes
Wait ==
    /\ now \div SAVE_MS < MaxWaits
    /\ now' = now + SAVE_MS
    /\ UNCHANGED <<requestQueue, processingQueue, batch, timer, cache,
                   cacheKeys, disk, stats, reqs, batches, maint, ticks>>

\* the cache and its directory across saves, faults and restarts
NextDisk ==
    \/ RequestStored
    \/ UpstreamResponds
    \/ CooldownElapsed
    \/ Wait
    \/ SaveTimer
    \/ Shutdown
    \/ Crash

SpecDisk == Init /\ [][NextDisk]_vars

\* the cache under the hourly cleanup
NextSweep ==
    \/ RequestStored
    \/ UpstreamResponds
    \/ CooldownElapsed
    \/ Wait
    \/ CleanupTimer

SpecSweep == Init /\ [][NextSweep]_vars

\* the state the module's initial values give, as one record
Booted ==
    [requestQueue |-> <<>>, processingQueue |-> FALSE, batch |-> {},
     timer |-> {}, cache |-> [k \in AllKeys |-> NoEntry], cacheKeys |-> <<>>,
     disk |-> [index |-> NoFile, files |-> [k \in AllKeys |-> NoFile]],
     stats |-> NoStats, reqs |-> <<>>, batches |-> 0, maint |-> NoMaint]

\* one request for key k served by an idle server: it arrives at time t, its
\* upstream call, if it makes one, is answered ok one clock step later, the
\* cooldown elapses, and its connection is closed
Served(D, k, t) ==
    LET Close(S) == [S EXCEPT !.reqs = <<>>]
        Cool(S) == AfterCooldown(S, CHOOSE due \in S.timer : TRUE)
        Answer(S) ==
            IF S.reqs[1].status = "fetching"
            THEN AwaitAll(FinishTask([S EXCEPT !.reqs[1].upstream = "ok"],
                                     1, TRUE, Body(1), t + TickMs),
                          t + TickMs)
            ELSE S
        F(S) == Bind(Close,
                     Bind(Cool,
                          Bind(Answer, EnqueueRequest(S, "anime", k, t))))
    IN  Bind(F, D)

\* the time at which the n-th of these requests is over: the first is a
\* miss, the others are hits
ServedBy(n) == IF n = 0 THEN 0 ELSE TickMs + n * COOLDOWN_MS

\* the server in state D after the requests number a + 1 to b for one
\* resource, one per cooldown (halving the range keeps the evaluation shallow)
RECURSIVE Warm(_, _, _)
Warm(D, a, b) ==
    LET F(S) == Warm(S, (a + b) \div 2, b)
    IN  IF b <= a THEN D
        ELSE IF b = a + 1
             THEN Served(D, CHOOSE k \in Keys : TRUE, ServedBy(a))
             ELSE Bind(F, Warm(D, a, (a + b) \div 2))

\* a server that has answered one request less than the sample ring holds
InitRing ==
    /\ now = ServedBy(RING_CAPACITY - 1)
    /\ \E D \in {Warm(Booted, 0, RING_CAPACITY - 1)} :
          /\ requestQueue = D.requestQueue
          /\ processingQueue = D.processingQueue
          /\ batch = D.batch
          /\ timer = D.timer
          /\ cache = D.cache
          /\ cacheKeys = D.cacheKeys
          /\ disk = D.disk
          /\ stats = D.stats
          /\ reqs = D.reqs
          /\ batches = D.batches
          /\ maint = D.maint
    /\ ticks = 0

\* the server under requests once the sample ring is nearly full
SpecRing == InitRing /\ [][Next]_vars

\* one request for key k whose upstream call fails, on an idle server: it
\* arrives at time t, the call fails one clock step later, the cooldown
\* elapses, and its connection is closed
Refused(D, k, t) ==
    LET Close(S) == [S EXCEPT !.reqs = <<>>]
        Cool(S) == AfterCooldown(S, CHOOSE due \in S.timer : TRUE)
        Answer(S) ==
            AwaitAll(FinishTask([S EXCEPT !.reqs[1].upstream = "failed"],
                                1, FALSE, Body(1), t + TickMs),
                     t + TickMs)
        F(S) == Bind(Close,
                     Bind(Cool,
                          Bind(Answer, EnqueueRequest(S, "anime", k, t))))
    IN  Bind(F, D)

\* the time at which the n-th of these requests is over
RefusedBy(n) == n * (TickMs + COOLDOWN_MS)

\* the server in state D after the requests number a + 1 to b of that kind,
\* one per cooldown
RECURSIVE Cold(_, _, _)
Cold(D, a, b) ==
    LET F(S) == Cold(S, (a + b) \div 2, b)
    IN  IF b <= a THEN D
        ELSE IF b = a + 1
             THEN Refused(D, CHOOSE k \in Keys : TRUE, RefusedBy(a))
             ELSE Bind(F, Cold(D, a, (a + b) \div 2))

\* a server that has counted three cache misses less than the count at
\* which fetchWithCache saves the cache, all of them failed upstream calls
InitFlush ==
    /\ now = RefusedBy(SAVE_EVERY - 3)
    /\ \E D \in {Cold(Booted, 0, SAVE_EVERY - 3)} :
          /\ requestQueue = D.requestQueue
          /\ processingQueue = D.processingQueue
          /\ batch = D.batch
          /\ timer = D.timer
          /\ cache = D.cache
          /\ cacheKeys = D.cacheKeys
          /\ disk = D.disk
          /\ stats = D.stats
          /\ reqs = D.reqs
          /\ batches = D.batches
          /\ maint = D.maint
    /\ ticks = 0

\* the server under requests when the miss count nears a multiple of
\* SAVE_EVERY
SpecFlush == InitFlush /\ [][Next]_vars

\* the handler of src/api/index.js receives a request: it calls the wrapped
\* handler itself, which runs to its first await
ApiHandle(D, e, k, t) ==
    LET F(S) == StartTask([S EXCEPT !.reqs = Append(@, NewRequest(e, k))],
                          Len(S.reqs) + 1, t)
    IN  Bind(F, D)

\* the rest of that handler's call after its upstream call came back: this
\* module's fetchWithCache writes the entry and saves nothing to disk
ApiFinishTask(D, r, ok, p, t) ==
    LET F(S) == IF ~ok
                THEN Reject(MiddlewareCatch(S, r), r, t)
                ELSE Resolve(MiddlewareReturn(
                                 CacheSet(S, S.reqs[r].key, NewEntry(S, r, p)),
                                 r, t),
                             r, p, t)
    IN  Bind(F, D)

\* an inbound request arrives at the handler of src/api/index.js
ApiRequest ==
    /\ Len(reqs) < MaxApi
    /\ \E k \in Keys :
          \E D \in {ApiHandle(State, "anime", k, now)} : Install(D)
    /\ UNCHANGED <<now, ticks>>

\* the upstream call of one of its requests comes back, ok or not
ApiUpstreamResponds ==
    /\ \E r \in 1..Len(reqs) :
         /\ reqs[r].status = "fetching"
         /\ \E ok \in BOOLEAN :
              \E D \in {ApiFinishTask([State EXCEPT !.reqs[r].upstream =
                                          IF ok THEN "ok" ELSE "failed"],
                                      r, ok, Body(r), now)} : Install(D)
    /\ UNCHANGED <<now, ticks>>

\* the entry point src/api/index.js under concurrent requests
NextApi ==
    \/ ApiRequest
    \/ ApiUpstreamResponds
    \/ Tick

SpecApi == Init /\ [][NextApi]_vars

\* a request for /api/anime with parameters of ClashParams arrives; the
\* URL its handler would fetch is kept with it
RequestClash ==
    /\ Len(reqs) < MaxClash
    /\ \E p \in ClashParams :
          \E D \in {[EnqueueRequest(State, "anime", AnimeCacheKey(p), now)
                        EXCEPT !.reqs[Len(reqs) + 1].url = AnimeUrl(p)]} :
              Install(D)
    /\ UNCHANGED <<now, ticks>>

\* handlers.anime under requests by id and by search
NextKeys ==
    \/ RequestClash
    \/ UpstreamResponds
    \/ CooldownElapsed
    \/ Tick

SpecKeys == Init /\ [][NextKeys]_vars

\* requests for a cacheable resource, random picks and the statistics
RequestStats == Arrive(MaxStats, {"anime", "random", "stats"}, Keys)

\* the stats object under requests to the three kinds of handler
NextStats ==
    \/ RequestStats
    \/ UpstreamResponds
    \/ CooldownElapsed
    \/ Wait

SpecStats == Init /\ [][NextStats]_vars

\* the handlers under searches and random picks
NextHandlers ==
    \/ RequestHandlers
    \/ UpstreamResponds
    \/ CooldownElapsed
    \/ Tick

SpecHandlers == Init /\ [][NextHandlers]_vars

----------------------------------------------------------------------------
(* Properties *)

ReqIds == 1..Len(reqs)
Started(r) == reqs[r].runs > 0
Done(r) == reqs[r].status \in {"resolved", "rejected"}
InQueue(r) == \E i \in 1..Len(requestQueue) : requestQueue[i] = r
BatchMembers(n) == {r \in ReqIds : Started(r) /\ reqs[r].batch = n}

\* the tasks that started in the window of COOLDOWN_MS beginning at time t
StartsInWindow(t) ==
    {q \in ReqIds : Started(q) /\ reqs[q].startedAt >= t
                    /\ reqs[q].startedAt < t + COOLDOWN_MS}

\* C1: at most MAX_REQUESTS_PER_SECOND tasks start within any window of
\* COOLDOWN_MS, and a task of a later batch starts only after every task of
\* an earlier batch has settled and a full cooldown has passed since then.
C1_AdmissionBound ==
    /\ \A r \in ReqIds :
         Started(r) =>
            Cardinality(StartsInWindow(reqs[r].startedAt)) <= MAX_REQUESTS_PER_SECOND
    /\ \A r, q \in ReqIds :
         (Started(r) /\ Started(q) /\ reqs[r].batch < reqs[q].batch) =>
            /\ Done(r)
            /\ reqs[q].startedAt >= reqs[r].settledAt + COOLDOWN_MS

\* a full batch has run and a later task, left behind by it, has started
C1_Witness ==
    \E n \in 1..batches :
        /\ Cardinality(BatchMembers(n)) = MAX_REQUESTS_PER_SECOND
        /\ BatchMembers(n + 1) # {}

\* C2: every submitted task is popped from the queue at most once and run
\* exactly as often as it was popped; it is in the queue, once, exactly
\* until it is popped, whatever the other tasks do.
C2_ExactlyOnce ==
    \A r \in ReqIds :
        /\ reqs[r].pops <= 1
        /\ reqs[r].runs = reqs[r].pops
        /\ InQueue(r) <=> reqs[r].pops = 0
        /\ Cardinality({i \in 1..Len(requestQueue) : requestQueue[i] = r}) <= 1

\* every task of a burst has run, one of them failed, and the queue is empty
C2_Witness ==
    /\ Len(reqs) = MaxBurst
    /\ requestQueue = <<>>
    /\ \A r \in ReqIds : reqs[r].runs = 1
    /\ \E r \in ReqIds : reqs[r].status = "rejected"
    /\ batches >= 3

\* C3: the promise of a request is settled at most once and with the outcome
\* of its own task: rejected exactly when its own upstream call failed,
\* resolved with the body of its own upstream call when that succeeded, and
\* resolved with a body cached for its key when it made no upstream call.
C3_OwnOutcome ==
    \A r \in ReqIds :
        /\ reqs[r].settles <= 1
        /\ Done(r) <=> reqs[r].settles = 1
        /\ reqs[r].upstream = "failed" <=> reqs[r].status = "rejected"
        /\ reqs[r].upstream = "ok" =>
              reqs[r].status = "resolved" /\ reqs[r].data = Body(r)
        /\ (reqs[r].status = "resolved" /\ reqs[r].upstream = "none") =>
              /\ reqs[r].hit
              /\ \E q \in ReqIds :
                    /\ q # r
                    /\ reqs[q].key = reqs[r].key
                    /\ reqs[q].upstream = "ok"
                    /\ reqs[r].data = Body(q)

\* a task failed and a sibling of the same batch succeeded after it
C3_Witness ==
    \E r, q \in ReqIds :
        /\ r # q
        /\ reqs[r].batch = reqs[q].batch
        /\ reqs[r].status = "rejected"
        /\ reqs[q].status = "resolved" /\ reqs[q].upstream = "ok"
        /\ reqs[q].settledAt > reqs[r].settledAt

\* C4: only one drain is active: every task that is executing belongs to
\* the one batch the drain is awaiting, which is the latest batch popped,
\* and at most one cooldown timer is pending.
C4_SingleDrain ==
    /\ \A r \in ReqIds :
         reqs[r].status = "fetching" =>
            /\ processingQueue
            /\ r \in batch
            /\ reqs[r].batch = batches
    /\ Cardinality(timer) <= 1
    /\ timer # {} => processingQueue

\* tasks were submitted while a batch is executing, and wait in the queue
C4_Witness ==
    /\ processingQueue
    /\ Len(requestQueue) >= 2
    /\ \E r \in batch : reqs[r].status = "fetching"

\* C5: batches are formed in submission order: a task that has started was
\* preceded or accompanied by every task submitted before it.
C5_Fifo ==
    \A r, q \in ReqIds :
        (r < q /\ Started(q)) =>
            /\ Started(r)
            /\ reqs[r].batch <= reqs[q].batch

\* two tasks that waited in the queue together ended up in successive batches
C5_Witness ==
    \E r, q \in ReqIds :
        /\ r < q
        /\ Started(r) /\ Started(q)
        /\ reqs[r].batch = 2
        /\ reqs[q].batch = 3

\* C6: (as claimed) every submitted task is eventually started, whatever was
\* submitted before it.
C6_NoStarvation ==
    \A r \in 1..MaxLive :
        (Len(reqs) >= r) ~> (Len(reqs) >= r /\ Started(r))

\* C6: (amended) every submitted task is eventually started, unless the
\* upstream call of a task submitted before it never comes back.
C6_NoStarvationUnlessHung ==
    \A r \in 1..MaxLive :
        (Len(reqs) >= r) ~>
            (Len(reqs) >= r /\ (Started(r) \/ \E q \in 1..(r - 1) : reqs[q].hung))

\* a task that had to wait for a batch and its cooldown has started
C6_Witness ==
    \E r \in ReqIds :
        /\ Started(r)
        /\ reqs[r].batch >= 2
        /\ reqs[r].startedAt >= COOLDOWN_MS
        /\ \A q \in ReqIds : ~reqs[q].hung

\* C7: in the step that writes the entry of a successful miss,
\* a lookup of the key made right after the write returns the written body.
C7_PutThenGet ==
    [][\A r \in ReqIds :
          (reqs[r].endpoint = "anime" /\ reqs[r].upstream = "none"
           /\ reqs'[r].upstream = "ok") =>
              HitData(cache', reqs[r].key, now') = Body(r)]_vars

\* C8: when a task looks up a key whose entry has now - timestamp >= duration
\* the lookup is a miss and the entry is removed from the Map; when the entry
\* has now - timestamp < duration the lookup is a hit that returns the
\* entry's data and leaves the entry in place.
C8_LazyExpiry ==
    [][\A r \in 1..Len(reqs') :
          (/\ r \in ReqIds => reqs[r].runs = 0
           /\ reqs'[r].runs = 1
           /\ reqs'[r].endpoint = "anime") =>
              LET k == reqs'[r].key
                  e == cache[k]
              IN  /\ (e # NoEntry /\ now - e.timestamp >= e.duration) =>
                        /\ ~reqs'[r].hit
                        /\ reqs'[r].status = "fetching"
                        /\ cache'[k] = NoEntry
                  /\ (e # NoEntry /\ now - e.timestamp < e.duration) =>
                        /\ reqs'[r].hit
                        /\ reqs'[r].status = "resolved"
                        /\ reqs'[r].data = e.data
                        /\ cache'[k] = e]_vars

\* an entry was looked up exactly when its lifetime ended, and was not served
C8_Witness ==
    \E r, q \in ReqIds :
        /\ reqs[q].key = reqs[r].key
        /\ reqs[q].upstream = "ok"
        /\ Started(r)
        /\ reqs[r].startedAt >= reqs[q].settledAt
        /\ reqs[r].startNow - reqs[q].startNow = CACHE_DURATION
        /\ ~reqs[r].hit

\* C9: of two successive requests for a key that start from an
\* empty cache (every earlier request for the key failed), made within one
\* cache lifetime and both answered with success, the first is a miss and the
\* second is a hit that returns the first one's body.
C9_HitAfterMiss ==
    \A r, q \in ReqIds :
        (/\ r < q
         /\ reqs[r].key = reqs[q].key
         /\ \A o \in 1..(q - 1) :
               (o # r /\ reqs[o].key = reqs[r].key) =>
                  (o < r /\ reqs[o].status = "rejected")
         /\ reqs[r].status = "resolved"
         /\ reqs[q].status = "resolved"
         /\ reqs[q].startedAt - reqs[r].startedAt < CACHE_DURATION) =>
            /\ ~reqs[r].hit
            /\ reqs[q].hit
            /\ reqs[q].data = reqs[r].data

\* C10: a request that arrives while its key is present and
\* unexpired is answered in that step and is not put in the dispatcher queue.
C10_HitsBypassDispatcher ==
    [][Len(reqs') = Len(reqs) + 1 =>
          LET r == Len(reqs') IN
          HitData(cache, reqs'[r].key, now) # NoData =>
              /\ reqs'[r].status = "resolved"
              /\ \A i \in 1..Len(requestQueue') : requestQueue'[i] # r]_vars

\* two parameter lists that are equal as unordered collections of pairs
SameParams(p1, p2) ==
    /\ Len(p1) = Len(p2)
    /\ \A i \in 1..Len(p1) :
          Cardinality({j \in 1..Len(p1) : p1[j] = p1[i]})
              = Cardinality({j \in 1..Len(p2) : p2[j] = p1[i]})

\* C11: of two searches whose parameters are equal as unordered collections
\* of pairs, the one that starts after the other's answer was cached (and
\* within its lifetime) is a cache hit.
C11_KeyNormalization ==
    \A p1, p2 \in SearchParams :
        SameParams(p1, p2) =>
            \A r, q \in ReqIds :
                (/\ reqs[r].endpoint = "anime" /\ reqs[q].endpoint = "anime"
                 /\ reqs[r].key = AnimeCacheKey(p1)
                 /\ reqs[q].key = AnimeCacheKey(p2)
                 /\ reqs[r].upstream = "ok"
                 /\ Started(q)
                 /\ reqs[q].batch > reqs[r].batch
                 /\ reqs[q].startedAt - reqs[r].startNow < CACHE_DURATION) =>
                    reqs[q].hit

\* C12: a step in which only random requests arrive, start or finish leaves
\* the cache Map and the hit and miss counters as they were; every random
\* request that has started was popped once and made one upstream call of
\* its own, whose outcome is its answer.
C12_RandomBypassesCache ==
    [][/\ (\A r \in 1..Len(reqs') :
              (r \notin ReqIds \/ reqs'[r] # reqs[r]) =>
                  reqs'[r].endpoint = "random") =>
              /\ cache' = cache
              /\ cacheKeys' = cacheKeys
              /\ stats'.cacheHits = stats.cacheHits
              /\ stats'.cacheMisses = stats.cacheMisses
       /\ \A r \in 1..Len(reqs') :
              reqs'[r].endpoint = "random" =>
                  /\ ~reqs'[r].hit
                  /\ reqs'[r].pops = reqs'[r].runs
                  /\ reqs'[r].fetches = reqs'[r].runs
                  /\ reqs'[r].runs <= 1
                  /\ reqs'[r].status = "resolved" =>
                        reqs'[r].upstream = "ok" /\ reqs'[r].data = Body(r)
                  /\ reqs'[r].status = "rejected" <=>
                        reqs'[r].upstream = "failed"]_vars

\* a cached search, a random request answered and another one failed
C12_Witness ==
    /\ \E k \in SearchKeys : cache[k] # NoEntry
    /\ \E r, q \in ReqIds :
          /\ reqs[r].endpoint = "random" /\ reqs[r].status = "resolved"
          /\ reqs[q].endpoint = "random" /\ reqs[q].status = "rejected"

\* the times between a snapshot and the next start of the process
Delays == {0, SAVE_MS, CACHE_DURATION}

\* C13: saving the cache (with every write succeeding) and then starting a
\* new process after any delay gives a Map that holds exactly the entries of
\* the old Map that are unexpired at the time of the load, with their
\* payloads and in their order, and nothing else.
C13_RoundTrip ==
    \A dt \in Delays :
        LET Alive(k) == /\ cache[k] # NoEntry
                        /\ (now + dt) - cache[k].timestamp < cache[k].duration
        IN  \A L \in {Startup(SaveCacheToDisk(State), now + dt)} :
                /\ \A k \in AllKeys :
                      /\ L.cache[k] # NoEntry <=> Alive(k)
                      /\ Alive(k) => L.cache[k].data = cache[k].data
                /\ L.cacheKeys = SelectSeq(cacheKeys, Alive)

\* a process that was started from a complete snapshot of two entries holds
\* the one that is still unexpired and not the one that expired meanwhile
C13_Witness ==
    /\ maint.boots = 1
    /\ maint.saved = "saved"
    /\ stats.requests = 0
    /\ IsJson(disk.index)
    /\ \E k1, k2 \in IdKeys :
          /\ cache[k1] # NoEntry
          /\ IsJson(disk.files[k1])
          /\ cache[k1] = ParseEntry(disk.files[k1])
          /\ cache[k2] = NoEntry
          /\ \E i \in 1..Len(ParseIndex(disk.index)) :
                ParseIndex(disk.index)[i] = k2
          /\ IsJson(disk.files[k2])
          /\ now - ParseEntry(disk.files[k2]).timestamp
                >= ParseEntry(disk.files[k2]).duration

\* C14: when a run of saveCacheToDisk fails at the write of one entry's file,
\* the files of all the other entries of the Map are written by that run,
\* and no request is affected.
C14_SaveIsolation ==
    [][(/\ maint'.saves = maint.saves + 1
        /\ maint'.boots = maint.boots
        /\ maint'.saved = "error"
        /\ maint'.written >= 1) =>
           /\ \A j \in 1..Len(cacheKeys) :
                 j # maint'.written =>
                    disk'.files[cacheKeys[j]] = StringifyEntry(cache[cacheKeys[j]])
           /\ reqs' = reqs]_vars

\* C15: a start of the process always completes, with a Map that holds
\* exactly the keys of a readable index whose files are readable and
\* unexpired (the others are passed over), and an empty Map when the index
\* is missing or unreadable; every entry it holds is unexpired.
C15_LoadNeverFatal ==
    [][maint'.boots = maint.boots + 1 =>
          /\ requestQueue' = <<>> /\ ~processingQueue'
          /\ \A k \in AllKeys :
                LET f == disk'.files[k]
                    listed == /\ IsJson(disk'.index)
                              /\ \E i \in 1..Len(ParseIndex(disk'.index)) :
                                    ParseIndex(disk'.index)[i] = k
                    admit == /\ listed
                             /\ IsJson(f)
                             /\ now' - ParseEntry(f).timestamp
                                   < ParseEntry(f).duration
                IN  /\ admit => cache'[k] = ParseEntry(f)
                    /\ ~admit => cache'[k] = NoEntry
                    /\ cache'[k] # NoEntry =>
                          now' - cache'[k].timestamp < cache'[k].duration]_vars

\* a process was started from an index of two keys of which one file was
\* damaged or missing, and holds the other key
C15_Witness ==
    /\ maint.boots = 1
    /\ stats.requests = 0
    /\ IsJson(disk.index)
    /\ Len(ParseIndex(disk.index)) = 2
    /\ \E k1, k2 \in IdKeys :
          /\ ParseIndex(disk.index)[1] = k1
          /\ ParseIndex(disk.index)[2] = k2
          /\ ~IsJson(disk.files[k1])
          /\ cache[k2] # NoEntry

\* C16: a run of the cleanup removes every entry with now - timestamp >=
\* duration and no other entry, and a second run at the same time removes
\* nothing.
C16_SweepRemovesInvalid ==
    [][maint'.sweeps = maint.sweeps + 1 =>
          /\ \A k \in AllKeys :
                cache'[k] = IF /\ cache[k] # NoEntry
                               /\ now - cache[k].timestamp >= cache[k].duration
                            THEN NoEntry
                            ELSE cache[k]
          /\ Cleanup(State', now').maint.removed = 0]_vars

\* C17: in the step in which the upstream call of a request fails, the
\* global error counter and the error counter of the request's endpoint
\* each grow by exactly one, no latency sample is pushed and no
\* totalResponseTime changes, and the request is rejected with the error;
\* a request whose call failed is never resolved.
C17_FailureCounted ==
    [][\A r \in ReqIds :
          /\ (reqs[r].upstream = "none" /\ reqs'[r].upstream = "failed") =>
                /\ stats'.errors = stats.errors + 1
                /\ stats'.endpoints[reqs[r].endpoint].errors
                      = stats.endpoints[reqs[r].endpoint].errors + 1
                /\ stats'.responseTime = stats.responseTime
                /\ \A e \in DOMAIN stats.endpoints :
                      stats'.endpoints[e].totalResponseTime
                          = stats.endpoints[e].totalResponseTime
                /\ stats'.requests = stats.requests
                /\ reqs'[r].status = "rejected"
                /\ reqs'[r].data = ErrorData
          /\ reqs'[r].upstream = "failed" =>
                reqs'[r].status = "rejected" /\ reqs'[r].http # HTTP_OK]_vars

\* one request was answered and sampled, another one failed and was counted
C17_Witness ==
    /\ stats.errors = 1
    /\ stats.endpoints["anime"].errors = 1
    /\ Len(stats.responseTime) = 1
    /\ \E r, q \in ReqIds :
          /\ reqs[r].upstream = "failed" /\ reqs[r].status = "rejected"
          /\ reqs[q].upstream = "ok" /\ reqs[q].status = "resolved"

\* the latency samples of the requests answered in a step, in the order of
\* their tasks, from request r on
RECURSIVE NewSamples(_)
NewSamples(r) ==
    IF r > Len(reqs') THEN <<>>
    ELSE (IF /\ reqs'[r].status = "resolved"
             /\ (r > Len(reqs) \/ reqs[r].status # "resolved")
          THEN <<reqs'[r].settledAt - reqs'[r].startedAt>>
          ELSE <<>>) \o NewSamples(r + 1)

\* the last n elements of a sequence
Last(seq, n) == SubSeq(seq, Len(seq) - n + 1, Len(seq))

\* C18: stats.responseTime never holds more than 1000 samples, and after
\* every step it is the old ring followed by the samples of the requests
\* answered in that step, cut from the front to the last 1000: a full ring
\* evicts its oldest sample.
C18_RingBounded ==
    [][/\ Len(stats'.responseTime) <= RING_CAPACITY
       /\ LET all == stats.responseTime \o NewSamples(1)
          IN  stats'.responseTime = Last(all, Min(RING_CAPACITY, Len(all)))]_vars

\* more requests were answered than the ring holds: the ring is full, its
\* oldest sample (the first miss) is gone and its newest is that of a miss
C18_Witness ==
    /\ stats.requests - stats.errors > RING_CAPACITY
    /\ Len(stats.responseTime) = RING_CAPACITY
    /\ stats.responseTime[1] = 0
    /\ stats.responseTime[RING_CAPACITY] > 0

\* C19: in the step in which the upstream call of a cache miss fails, the
\* cache Map is left as it was and the request is answered with the 500
\* error envelope after its one upstream call; no request ever makes a
\* second call; and a request for the same key that starts after the failure
\* is a hit only if the call of some other request succeeded and stored the
\* key before it started: otherwise it is a miss again.
C19_FailureNotCached ==
    [][\A r \in ReqIds :
          /\ (reqs[r].upstream = "none" /\ reqs'[r].upstream = "failed") =>
                /\ cache' = cache
                /\ cacheKeys' = cacheKeys
                /\ ~reqs'[r].hit
                /\ reqs'[r].fetches = 1
                /\ reqs'[r].status = "rejected"
                /\ reqs'[r].http = HTTP_ERROR
                /\ reqs'[r].data = ErrorData
          /\ reqs'[r].fetches <= 1
          /\ reqs[r].upstream = "failed" =>
                /\ reqs'[r] = reqs[r]
                /\ \A q \in 1..Len(reqs') :
                      (/\ reqs'[q].key = reqs[r].key
                       /\ reqs'[q].runs > 0
                       /\ reqs'[q].batch > reqs[r].batch
                       /\ reqs'[q].hit) =>
                          \E p \in ReqIds :
                              /\ p # r
                              /\ reqs[p].key = reqs[r].key
                              /\ reqs[p].upstream = "ok"
                              /\ reqs[p].settledAt <= reqs'[q].startedAt]_vars

\* the call of the first request failed and left the Map empty; the next
\* request for the same key was a miss with a call of its own, which was
\* answered and cached
C19_Witness ==
    \E r, q \in ReqIds :
        /\ reqs[r].upstream = "failed" /\ reqs[r].http = HTTP_ERROR
        /\ reqs[r].fetches = 1
        /\ reqs[q].key = reqs[r].key
        /\ reqs[q].batch > reqs[r].batch
        /\ ~reqs[q].hit /\ reqs[q].fetches = 1
        /\ reqs[q].upstream = "ok"
        /\ \A p \in ReqIds : reqs[p].upstream = "ok" => p = q
        /\ cache[reqs[q].key] # NoEntry

\* C20: as soon as every task of the batch has settled, the drain loop arms
\* a timer of COOLDOWN_MS from that moment, whether or not the queue is
\* empty; while a drain is active nothing is popped and the flag is not
\* cleared before that timer is due; and a request that arrives while a
\* drain is active (its batch executing or cooling down) is queued and not
\* started.
C20_UnconditionalCooldown ==
    [][/\ (/\ processingQueue'
           /\ \A r \in batch' : reqs'[r].status \in {"resolved", "rejected"}) =>
              /\ timer' # {}
              /\ timer = {} => timer' = {now' + COOLDOWN_MS}
              /\ \A due \in timer' :
                    /\ \A r \in batch' :
                          due >= reqs'[r].settledAt + COOLDOWN_MS
                    /\ \E r \in batch' :
                          due = reqs'[r].settledAt + COOLDOWN_MS
       /\ (processingQueue /\ (~processingQueue' \/ batches' > batches)) =>
              \E due \in timer : now >= due
       /\ \A r \in 1..Len(reqs') :
              (r > Len(reqs) /\ processingQueue) =>
                  /\ reqs'[r].status = "queued"
                  /\ reqs'[r].runs = 0
                  /\ \E i \in 1..Len(requestQueue') : requestQueue'[i] = r
                  /\ batches' = batches]_vars

\* a batch of one cache hit was popped from a queue it left empty and settled
\* at once; its cooldown is still running, and a request that arrived during
\* it waits in the queue
C20_Witness ==
    /\ processingQueue
    /\ \E due \in timer : now < due
    /\ Cardinality(batch) = 1
    /\ \A r \in batch : reqs[r].hit /\ reqs[r].settledAt = reqs[r].startedAt
    /\ requestQueue # <<>>
    /\ \A i \in 1..Len(requestQueue) :
          /\ reqs[requestQueue[i]].runs = 0
          /\ reqs[requestQueue[i]].status = "queued"

\* C21: once the upstream call of a task of the batch hangs, every later
\* step leaves the drain in that batch: the in-progress flag stays set, no
\* cooldown timer is armed, no batch is popped and no queued task starts;
\* a sibling of the batch whose call comes back in such a step is still
\* resolved with its own body or rejected; and every task that is executing
\* eventually settles unless its own call hangs.
C21_HungStalls ==
    /\ [][\A r \in ReqIds :
             reqs[r].hung =>
                /\ reqs'[r].hung /\ reqs'[r].status = "fetching"
                /\ processingQueue'
                /\ timer' = {}
                /\ r \in batch' /\ batch' = batch
                /\ batches' = batches
                /\ \A q \in 1..Len(reqs') :
                      /\ (q \notin ReqIds \/ reqs[q].runs = 0) =>
                            reqs'[q].runs = 0 /\ reqs'[q].status = "queued"
                      /\ (q \in batch /\ reqs[q].upstream = "none"
                          /\ reqs'[q].upstream = "ok") =>
                            reqs'[q].status = "resolved"
                            /\ reqs'[q].data = Body(q)
                      /\ (q \in batch /\ reqs[q].upstream = "none"
                          /\ reqs'[q].upstream = "failed") =>
                            reqs'[q].status = "rejected"]_vars
    /\ \A r \in 1..MaxLive :
          (Len(reqs) >= r /\ reqs[r].status = "fetching") ~>
              (/\ Len(reqs) >= r
               /\ reqs[r].status \in {"resolved", "rejected"} \/ reqs[r].hung)

\* the call of one task of a batch hangs, a sibling whose call came back
\* after that has been answered, and a request waits in the queue behind
\* the batch, which is not left
C21_Witness ==
    /\ processingQueue /\ timer = {}
    /\ \E r, q \in batch :
          /\ reqs[r].hung /\ reqs[r].status = "fetching"
          /\ reqs[q].status = "resolved" /\ reqs[q].upstream = "ok"
          /\ reqs[q].settledAt > reqs[q].startedAt
    /\ \A q \in batch : q # CHOOSE r \in batch : reqs[r].hung =>
          reqs[q].status \in {"resolved", "rejected"}
    /\ requestQueue # <<>>
    /\ \A i \in 1..Len(requestQueue) : reqs[requestQueue[i]].runs = 0
    /\ now > 0

\* C22: in the step that writes the entry of a successful miss, the entry's
\* timestamp is the time of that step, so that the entry is valid at every
\* time before the time of the write plus its duration.
C22_StampedAtInsert ==
    [][\A r \in ReqIds :
          (reqs[r].endpoint = "anime" /\ reqs[r].upstream = "none"
           /\ reqs'[r].upstream = "ok") =>
              /\ cache'[reqs[r].key].timestamp = now'
              /\ Fresh(cache'[reqs[r].key],
                       now' + cache'[reqs[r].key].duration - 1)]_vars

\* C23: the step that writes the entry of a successful miss runs
\* saveCacheToDisk exactly when that miss is the (SAVE_EVERY * k)-th miss
\* counted, whatever the other tasks of the batch have done meanwhile.
C23_FlushEveryNth ==
    [][\A r \in ReqIds :
          (reqs[r].endpoint = "anime" /\ reqs[r].upstream = "none"
           /\ reqs'[r].upstream = "ok") =>
              (maint'.saves = maint.saves + 1
                  <=> reqs[r].missNo % SAVE_EVERY = 0)]_vars

\* C24: every request that has made an upstream call made it as a task
\* popped into a dispatcher batch, and at most MAX_REQUESTS_PER_SECOND
\* upstream calls are outstanding at any time.
C24_SoleSerializationPoint ==
    /\ \A r \in ReqIds :
          reqs[r].fetches > 0 => reqs[r].pops = 1 /\ reqs[r].batch >= 1
    /\ Cardinality({r \in ReqIds : reqs[r].status = "fetching"})
          <= MAX_REQUESTS_PER_SECOND

\* C25: after every step, a non-empty queue has an active drain; in the step
\* in which the cooldown timer fires, the flag is cleared when the queue is
\* empty, and otherwise the tasks at the head of the queue are popped and
\* started by the drain itself, with no request arriving in that step.
C25_NoLostWakeup ==
    [][/\ requestQueue' # <<>> => processingQueue'
       /\ (timer # {} /\ timer' # timer) =>
             IF requestQueue = <<>>
             THEN ~processingQueue' /\ batch' = {} /\ batches' = batches
             ELSE /\ Len(reqs') = Len(reqs)
                  /\ batches' = batches + 1
                  /\ processingQueue'
                  /\ batch' = {requestQueue[i] :
                                  i \in 1..Min(MAX_REQUESTS_PER_SECOND,
                                               Len(requestQueue))}
                  /\ \A r \in batch' :
                        reqs[r].runs = 0 /\ reqs'[r].runs = 1]_vars

\* the last request submitted was popped together with another one, which
\* only the drain's own re-check after a cooldown does, and nothing waits
C25_Witness ==
    /\ requestQueue = <<>>
    /\ Len(reqs) >= 3
    /\ \E q \in ReqIds :
          /\ q # Len(reqs)
          /\ Started(q) /\ Started(Len(reqs))
          /\ reqs[q].batch = reqs[Len(reqs)].batch
          /\ reqs[q].batch >= 2

\* C26: two requests whose handlers resolve them to different upstream URLs
\* have different cache keys, and the payload a cache hit returns was
\* fetched from the URL its own request resolves to.
C26_KeysIdentifyUrls ==
    \A r, q \in ReqIds :
        /\ reqs[r].url # reqs[q].url => reqs[r].key # reqs[q].key
        /\ (reqs[r].hit /\ reqs[q].upstream = "ok"
            /\ reqs[r].data = Body(q)) => reqs[q].url = reqs[r].url

\* C27: a file written by a save holds the timestamp and the duration the
\* entry has in the Map at that time; an entry admitted at a start of the
\* process has the timestamp and the duration of its file, hence, after a
\* save and restart, those it had in the Map before; and a lookup of it at
\* timestamp + duration or later is a miss, as without the restart.
C27_RestartKeepsExpiry ==
    [][\A k \in AllKeys :
          /\ (IsJson(disk'.files[k]) /\ disk'.files[k] # disk.files[k]) =>
                /\ cache[k] # NoEntry
                /\ ParseEntry(disk'.files[k]).timestamp = cache[k].timestamp
                /\ ParseEntry(disk'.files[k]).duration = cache[k].duration
          /\ (maint'.boots = maint.boots + 1 /\ cache'[k] # NoEntry) =>
                /\ IsJson(disk'.files[k])
                /\ cache'[k].timestamp = ParseEntry(disk'.files[k]).timestamp
                /\ cache'[k].duration = ParseEntry(disk'.files[k]).duration
                /\ cache'[k].timestamp + cache'[k].duration > now'
                /\ HitData(cache', k, cache'[k].timestamp + cache'[k].duration)
                      = NoData
                /\ HitData(cache', k,
                           cache'[k].timestamp + cache'[k].duration - 1)
                      = cache'[k].data
                /\ (maint'.saves = maint.saves + 1) =>
                      /\ cache'[k].timestamp = cache[k].timestamp
                      /\ cache'[k].duration = cache[k].duration]_vars

\* a process started half an hour or more after an entry was stamped holds
\* that entry with its old timestamp
C27_Witness ==
    /\ maint.boots >= 1
    /\ stats.requests = 0
    /\ \E k \in IdKeys :
          /\ cache[k] # NoEntry
          /\ stats.startTime - cache[k].timestamp >= SAVE_MS
          /\ cache[k].duration = CACHE_DURATION

\* the sum of f[e] over the endpoints of set S
RECURSIVE SumOver(_, _)
SumOver(S, f) ==
    IF S = {} THEN 0
    ELSE LET e == CHOOSE x \in S : TRUE
         IN  f[e] + SumOver(S \ {e}, f)

\* the requests for endpoint e whose handler has been called
Called(e) == {r \in ReqIds : reqs[r].endpoint = e /\ Started(r)}

\* C28: stats.requests is the sum of the endpoints' calls and stats.errors
\* the sum of their errors; every handler call is counted once for its
\* endpoint, failed or not; no endpoint has more errors than calls; hits
\* and misses together are at most the requests, and exactly the calls of
\* the handlers that use the cache: random and stats add to neither.
C28_StatsConsistent ==
    /\ stats.requests
          = SumOver(Endpoints, [e \in Endpoints |-> stats.endpoints[e].calls])
    /\ stats.errors
          = SumOver(Endpoints, [e \in Endpoints |-> stats.endpoints[e].errors])
    /\ \A e \in Endpoints :
          /\ stats.endpoints[e].calls = Cardinality(Called(e))
          /\ stats.endpoints[e].errors
                = Cardinality({r \in Called(e) : reqs[r].status = "rejected"})
          /\ stats.endpoints[e].errors <= stats.endpoints[e].calls
    /\ stats.cacheHits + stats.cacheMisses <= stats.requests
    /\ stats.cacheHits + stats.cacheMisses = stats.endpoints["anime"].calls
    /\ stats.cacheHits = Cardinality({r \in Called("anime") : reqs[r].hit})

\* a miss, a hit, a failed random pick and a statistics request have all
\* been counted
C28_Witness ==
    /\ stats.requests = 4
    /\ stats.cacheMisses = 1 /\ stats.cacheHits = 1
    /\ stats.endpoints["random"].errors = 1
    /\ stats.endpoints["stats"].calls = 1
    /\ \E r \in ReqIds :
          /\ reqs[r].endpoint = "stats"
          /\ reqs[r].status = "resolved"
          /\ reqs[r].data[2] >= 2

====
